---- MODULE Spec2Model ----
(***************************************************************************)
(* Model of the chappe command line entry point (bin/chappe.js): action    *)
(* selection, context resolution, spinner feedback, error traps and exit.  *)
(*                                                                         *)
(* Strings are sequences of atoms.  An atom is one of the separators "/",  *)
(* "," and ".", or a name that holds none of them as a path element        *)
(* ("a", "config.json", "production").  JavaScript values are tagged        *)
(* records: undefined, the boolean true (a flag given without a value),    *)
(* strings and objects.  Console output is left out, but for the count of  *)
(* pipeline events mirrored; process.exitCode is kept as the list of the   *)
(* values written to it.                                                   *)
(***************************************************************************)
EXTENDS Integers, Sequences, FiniteSets, TLC

\* Longest override string (in atoms) given for config and assets.
MaxLen == 2
\* Longest raw token list handed to action selection.
MaxTokens == 3
\* Most lifecycle events of the build pipeline mirrored to the console.
MaxEvents == 1

(***************************************************************************)
(* JavaScript values                                                       *)
(***************************************************************************)
Undefined == [t |-> "undefined"]
True == [t |-> "boolean"]
Str(s) == [t |-> "string", s |-> s]
Obj(props) == [t |-> "object", props |-> props]

IsStr(v) == v.t = "string"

\* ToBoolean: undefined and the empty string are falsy.
Truthy(v) ==
    CASE v.t = "undefined" -> FALSE
      [] v.t = "string" -> v.s # <<>>
      [] OTHER -> TRUE

\* a || b
Or(a, b) == IF Truthy(a) THEN a ELSE b

\* A property read: undefined when the object does not hold the key.
GetProp(o, k) ==
    IF o.t = "object" /\ k \in DOMAIN o.props THEN o.props[k] ELSE Undefined

\* String(v), as Array.prototype.join renders one element.
JoinElement(v) ==
    CASE v.t = "undefined" -> <<>>
      [] v.t = "boolean" -> <<"true">>
      [] v.t = "string" -> v.s
      [] OTHER -> <<"[object Object]">>

(***************************************************************************)
(* Strings                                                                 *)
(***************************************************************************)
RECURSIVE SplitOn(_, _)
\* s.split(sep): the pieces of s between the occurrences of sep.
SplitOn(s, sep) ==
    IF \A i \in 1..Len(s) : s[i] # sep
    THEN <<s>>
    ELSE LET i == CHOOSE j \in 1..Len(s) :
                      s[j] = sep /\ \A k \in 1..(j - 1) : s[k] # sep
         IN <<SubSeq(s, 1, i - 1)>> \o SplitOn(SubSeq(s, i + 1, Len(s)), sep)

RECURSIVE JoinWith(_, _)
\* list.join(sep)
JoinWith(list, sep) ==
    IF list = <<>> THEN <<>>
    ELSE IF Len(list) = 1 THEN list[1]
    ELSE list[1] \o <<sep>> \o JoinWith(Tail(list), sep)

(***************************************************************************)
(* path (POSIX)                                                            *)
(***************************************************************************)
PathIsAbsolute(p) == Len(p) > 0 /\ p[1] = "/"

RECURSIVE NormalizeSegments(_, _, _)
\* Resolves "." and ".." segments, left to right, over the segments kept so far.
NormalizeSegments(segs, kept, allowAboveRoot) ==
    IF segs = <<>> THEN kept
    ELSE LET seg == Head(segs)
             rest == Tail(segs)
         IN IF seg = <<>> \/ seg = <<".">>
            THEN NormalizeSegments(rest, kept, allowAboveRoot)
            ELSE IF seg = <<".", ".">>
            THEN IF kept # <<>> /\ kept[Len(kept)] # <<".", ".">>
                 THEN NormalizeSegments(rest, SubSeq(kept, 1, Len(kept) - 1), allowAboveRoot)
                 ELSE IF allowAboveRoot
                 THEN NormalizeSegments(rest, Append(kept, seg), allowAboveRoot)
                 ELSE NormalizeSegments(rest, kept, allowAboveRoot)
            ELSE NormalizeSegments(rest, Append(kept, seg), allowAboveRoot)

\* path.normalize(p)
PathNormalize(p) ==
    IF p = <<>> THEN <<".">>
    ELSE LET isAbsolute == p[1] = "/"
             trailingSeparator == p[Len(p)] = "/"
             body == JoinWith(NormalizeSegments(SplitOn(p, "/"), <<>>, ~isAbsolute), "/")
         IN IF body = <<>>
            THEN IF isAbsolute THEN <<"/">>
                 ELSE IF trailingSeparator THEN <<".", "/">> ELSE <<".">>
            ELSE (IF isAbsolute THEN <<"/">> ELSE <<>>)
                 \o body
                 \o (IF trailingSeparator THEN <<"/">> ELSE <<>>)

\* path.join(a, b): empty arguments are skipped.
PathJoin(a, b) ==
    IF a = <<>> /\ b = <<>> THEN <<".">>
    ELSE IF a = <<>> THEN PathNormalize(b)
    ELSE IF b = <<>> THEN PathNormalize(a)
    ELSE PathNormalize(a \o <<"/">> \o b)

\* process.cwd()
Cwd == <<"/", "w">>

(***************************************************************************)
(* Constants of the class                                                  *)
(***************************************************************************)
ContextKeys == <<"config", "assets", "data", "dist", "temp", "env">>

DefaultProfile ==
    Obj([config |-> Str(<<".", "/", "config.json">>),
         assets |-> Str(<<".", "/", "assets">>),
         data   |-> Str(<<".", "/", "data">>),
         dist   |-> Str(<<".", "/", "dist">>),
         temp   |-> Str(<<".", "/", ".chappe">>),
         env    |-> Str(<<"production">>)])

AcmeDocsProfile ==
    Obj([config |-> Str(<<".", "/", "examples", "/", "acme-docs", "/", "config.json">>),
         assets |-> Str(<<".", "/", "examples", "/", "acme-docs", "/", "assets">>),
         data   |-> Str(<<".", "/", "examples", "/", "acme-docs", "/", "data">>),
         dist   |-> Str(<<".", "/", "dist">>),
         temp   |-> Str(<<".", "/", ".chappe">>),
         env    |-> Str(<<"development">>)])

\* Own keys of __context_defaults.example.
ExampleNames == {"acme-docs"}

\* Members every object literal inherits from Object.prototype.
ObjectPrototypeKeys == {"constructor", "toString", "__proto__"}

\* An inherited member: a truthy object that holds none of the six fields.
PrototypeMember == Obj([inherited |-> True])

\* this.__context_defaults.example[name]: an own key first, then the
\* prototype chain of the object literal.
ExampleLookup(name) ==
    IF name \in ExampleNames THEN AcmeDocsProfile
    ELSE IF name \in ObjectPrototypeKeys THEN PrototypeMember
    ELSE Undefined

ActionsAvailable == <<"clean", "build", "lint", "watch">>

ActionsLogging == {"watch"}

SpinnerSuccesses(task) ==
    CASE task = "clean" -> [method |-> "succeed", text |-> "Cleaned up."]
      [] task = "build" -> [method |-> "succeed", text |-> "Build done!"]
      [] task = "lint"  -> [method |-> "succeed", text |-> "Lint passed."]
      [] task = "watch" -> [method |-> "start", text |-> "Watching...\n"]
      [] OTHER -> [method |-> "succeed", text |-> "Success!"]

PathExpandKeys == <<"config", "assets", "data", "dist", "temp">>

EnvAvailable == {<<"development">>, <<"production">>}

(***************************************************************************)
(* __acquire_action                                                        *)
(***************************************************************************)
Includes(list, x) == \E i \in 1..Len(list) : list[i] = x

RECURSIVE AcquireActionFrom(_, _)
\* The loop over __actions_available from index i on: the first available
\* action that process.argv includes, or "" (undefined) when none is.
AcquireActionFrom(tokens, i) ==
    IF i > Len(ActionsAvailable) THEN ""
    ELSE IF Includes(tokens, ActionsAvailable[i]) THEN ActionsAvailable[i]
    ELSE AcquireActionFrom(tokens, i + 1)

RECURSIVE FirstTokenAction(_)
\* (a slip) the first token, in token order, that names an action.
FirstTokenAction(tokens) ==
    IF tokens = <<>> THEN "build"
    ELSE IF Includes(ActionsAvailable, Head(tokens)) THEN Head(tokens)
    ELSE FirstTokenAction(Tail(tokens))

AcquireAction(tokens) ==
    LET _action == AcquireActionFrom(tokens, 1)
    IN IF _action # "" THEN _action ELSE "build"

(***************************************************************************)
(* __acquire_context                                                       *)
(***************************************************************************)
\* The example's name as a property key.
ExampleKey(v) == IF IsStr(v) /\ Len(v.s) = 1 THEN v.s[1] ELSE "true"

\* _defaults: the example's profile when an example is given, else the default.
AcquireDefaults(a) ==
    IF Truthy(a.example) THEN ExampleLookup(ExampleKey(a.example)) ELSE DefaultProfile

\* The raw value of a field: the override when truthy, else the profile's.
RawValue(a, defaults, key) == Or(a[key], GetProp(defaults, key))

\* The field as a list: config is split on commas, every other field is a
\* list of one value.  config.split fails on anything but a string.
ContextList(a, defaults, key) ==
    LET v == RawValue(a, defaults, key)
    IN IF key = "config"
       THEN IF IsStr(v)
            THEN [e \in 1..Len(SplitOn(v.s, ",")) |-> Str(SplitOn(v.s, ",")[e])]
            ELSE <<>>
       ELSE <<v>>

\* (a slip) the absolute test inverted: relative values are left alone.
ExpandValueInverted(v) ==
    IF IsStr(v)
    THEN IF PathIsAbsolute(v.s) THEN Str(PathJoin(Cwd, v.s)) ELSE v
    ELSE v

\* One value of a path field: joined to the working directory unless absolute.
ExpandValue(v) ==
    IF IsStr(v)
    THEN IF PathIsAbsolute(v.s) THEN v ELSE Str(PathJoin(Cwd, v.s))
    ELSE v

\* A TypeError: config.split on a non-string, or path.isAbsolute of one.
TypeErrorIn(a, defaults) ==
    \/ ~IsStr(RawValue(a, defaults, "config"))
    \/ \E i \in 2..Len(PathExpandKeys) : ~IsStr(RawValue(a, defaults, PathExpandKeys[i]))

\* The joined field: its values expanded (path fields) and joined by commas.
ContextField(a, defaults, key) ==
    LET list == ContextList(a, defaults, key)
        expanded == [e \in 1..Len(list) |->
                        IF Includes(PathExpandKeys, key)
                        THEN JoinElement(ExpandValue(list[e]))
                        ELSE JoinElement(list[e])]
    IN JoinWith(expanded, ",")

\* (a slip) the environment is not validated.
EnvRecognizedAny(env) == TRUE

\* this.__env_available.includes(_context.env)
EnvRecognized(env) == env \in EnvAvailable

\* The result of __acquire_context: the error thrown ("none" when it
\* returns) and the context returned.
AcquireContext(a) ==
    LET defaults == AcquireDefaults(a)
        context == [k \in {ContextKeys[i] : i \in 1..Len(ContextKeys)} |->
                       ContextField(a, defaults, k)]
    IN IF ~Truthy(defaults)
       THEN [error |-> "example", context |-> <<>>]
       ELSE IF TypeErrorIn(a, defaults)
       THEN [error |-> "type", context |-> <<>>]
       ELSE IF ~EnvRecognized(context["env"])
       THEN [error |-> "env", context |-> <<>>]
       ELSE [error |-> "none", context |-> context]

(***************************************************************************)
(* State                                                                   *)
(***************************************************************************)
VARIABLES
    argv,                 \* process.argv: the raw tokens
    args,                 \* yargs' argv: help, version, example and the six overrides
    pc,                   \* the statement of run / __run_default reached
    task,                 \* _task ("" before it is acquired)
    CONTEXT,              \* global.CONTEXT: <<>> until published, then <<context>>
    thrown,               \* the error __acquire_context threw ("none" if none)
    spinner,              \* "none" (not created), "idle", "running", "succeeded", "failed"
    spinnerText,          \* the text the spinner shows
    terminalTransitions,  \* how many times the spinner was finalized (succeed or fail)
    trapsInstalled,       \* __setup_error_traps ran: exit hook and trap are registered
    loggingInstalled,     \* __setup_gulp_logging ran
    pipelineInvoked,      \* _gulpfile[_task] was called
    callback,             \* the completion callback: "none", "error", "ok"
    events,               \* lifecycle events mirrored to the console
    exitCodes,            \* every value written to process.exitCode, in order
    exitEmitted,          \* the codes the "exit" event was emitted with
    hookRuns,             \* how many times the exit hook ran
    sigkill,              \* the exit hook sent SIGKILL to the process
    proc                  \* "running", "exited", "killed"

vars == <<argv, args, pc, task, CONTEXT, thrown, spinner, spinnerText,
          terminalTransitions, trapsInstalled, loggingInstalled, pipelineInvoked,
          callback, events, exitCodes, exitEmitted, hookRuns, sigkill, proc>>

inputVars == <<argv, args>>
spinnerVars == <<spinner, spinnerText, terminalTransitions>>
exitVars == <<exitCodes, exitEmitted, hookRuns, sigkill, proc>>
setupVars == <<trapsInstalled, loggingInstalled, pipelineInvoked>>

(***************************************************************************)
(* Inputs                                                                  *)
(***************************************************************************)
Atoms == {"a", "/", ",", "."}

Strs(n) == UNION {[1..k -> Atoms] : k \in 0..n}

Tokens == {"node", "--quiet", "clean", "build", "lint", "watch"}

TokenLists(n) == UNION {[1..k -> Tokens] : k \in 0..n}

Flags == {Undefined, True}

Args(help, version, example, config, assets, data, dist, temp, env) ==
    [help |-> help, version |-> version, example |-> example, config |-> config,
     assets |-> assets, data |-> data, dist |-> dist, temp |-> temp, env |-> env]

StartState ==
    /\ task = ""
    /\ CONTEXT = <<>>
    /\ thrown = "none"
    /\ spinner = "none"
    /\ spinnerText = ""
    /\ terminalTransitions = 0
    /\ trapsInstalled = FALSE
    /\ loggingInstalled = FALSE
    /\ pipelineInvoked = FALSE
    /\ callback = "none"
    /\ events = 0
    /\ exitCodes = <<>>
    /\ exitEmitted = <<>>
    /\ hookRuns = 0
    /\ sigkill = FALSE
    /\ proc = "running"

\* A whole run: few inputs of every kind.
Init ==
    /\ argv \in {<<"node">>, <<"node", "clean">>, <<"node", "lint">>,
                 <<"node", "watch">>, <<"node", "--quiet", "build">>}
    /\ \E help \in Flags, version \in Flags,
          example \in {Undefined, Str(<<"acme-docs">>), Str(<<"nonexistent">>),
                       Str(<<"constructor">>)},
          config \in {Undefined, Str(<<"a", ",", "b">>)},
          assets \in {Undefined, Str(<<"/", "a">>)},
          data \in {Undefined, Str(<<"a">>)},
          dist \in {Undefined, Str(<<"a">>)},
          temp \in {Undefined, Str(<<"a">>)},
          env \in {Undefined, True, Str(<<"production">>), Str(<<"development">>),
                   Str(<<"staging">>)} :
          args = Args(help, version, example, config, assets, data, dist, temp, env)
    /\ pc = "run"
    /\ StartState

(***************************************************************************)
(* The spinner                                                             *)
(***************************************************************************)
\* spinner.fail(text)
SpinnerFail(text) ==
    /\ spinner' = "failed"
    /\ spinnerText' = text
    /\ terminalTransitions' = terminalTransitions + 1

\* spinner.succeed(text)
SpinnerSucceed(text) ==
    /\ spinner' = "succeeded"
    /\ spinnerText' = text
    /\ terminalTransitions' = terminalTransitions + 1

\* spinner.start(text)
SpinnerStart(text) ==
    /\ spinner' = "running"
    /\ spinnerText' = text
    /\ terminalTransitions' = terminalTransitions

\* spinner[rule.method](rule.text)
SpinnerApply(rule) ==
    IF rule.method = "succeed" THEN SpinnerSucceed(rule.text) ELSE SpinnerStart(rule.text)

(***************************************************************************)
(* Exit                                                                    *)
(***************************************************************************)
\* process.exitCode || 0
PendingExitCode == IF exitCodes = <<>> THEN 0 ELSE exitCodes[Len(exitCodes)]

\* (a slip) the exit hook kills whatever the code.
ExitHookAlwaysKills(code) == TRUE

\* The exit hook's test: code > 0.
ExitHookKills(code) == code > 0

\* The "exit" event, emitted with `code` once `written` holds the values
\* written to process.exitCode: the exit hook, registered once, runs if
\* __setup_error_traps registered it; on a code above zero it writes the
\* code again and kills the process, else the process exits.
EmitExit(code, written) ==
    /\ exitEmitted' = Append(exitEmitted, code)
    /\ IF trapsInstalled /\ hookRuns = 0
       THEN /\ hookRuns' = hookRuns + 1
            /\ IF ExitHookKills(code)
               THEN /\ exitCodes' = Append(written, code)
                    /\ sigkill' = TRUE
                    /\ proc' = "killed"
               ELSE /\ exitCodes' = written
                    /\ sigkill' = sigkill
                    /\ proc' = "exited"
       ELSE /\ hookRuns' = hookRuns
            /\ exitCodes' = written
            /\ sigkill' = sigkill
            /\ proc' = "exited"

\* process.exit(code): writes process.exitCode, then emits "exit".
ProcessExit(code) == EmitExit(code, Append(exitCodes, code))

\* An exception nothing catches: the trap of __setup_error_traps when it is
\* registered, else the runtime's own fatal path (exit code 1).
RaiseUncaught ==
    IF trapsInstalled
    THEN SpinnerFail("Failed:") /\ ProcessExit(1)
    ELSE UNCHANGED spinnerVars /\ ProcessExit(1)

(***************************************************************************)
(* The build pipeline (gulpfile.js), by its contract                       *)
(***************************************************************************)
\* The completion callback fires at most once.
PipelineMayComplete == pipelineInvoked /\ callback = "none"

\* Lifecycle events fire before completion, never after.
PipelineMayEmit == pipelineInvoked /\ callback = "none"

(***************************************************************************)
(* run and __run_default, statement by statement                           *)
(***************************************************************************)
RunHelp ==
    /\ pc = "run" /\ proc = "running"
    /\ Truthy(args.help)
    /\ pc' = "help"
    /\ ProcessExit(0)
    /\ UNCHANGED <<inputVars, task, CONTEXT, thrown, spinnerVars, setupVars,
                   callback, events>>

RunVersion ==
    /\ pc = "run" /\ proc = "running"
    /\ ~Truthy(args.help) /\ Truthy(args.version)
    /\ pc' = "version"
    /\ ProcessExit(0)
    /\ UNCHANGED <<inputVars, task, CONTEXT, thrown, spinnerVars, setupVars,
                   callback, events>>

\* (a slip) the error traps set up first, before the context is acquired.
RunDefaultTrapsFirst ==
    /\ pc = "run" /\ proc = "running"
    /\ ~Truthy(args.help) /\ ~Truthy(args.version)
    /\ pc' = "acquire_action"
    /\ spinner' = "idle" /\ spinnerText' = "Working...\n"
    /\ trapsInstalled' = TRUE
    /\ UNCHANGED <<inputVars, task, CONTEXT, thrown, terminalTransitions,
                   loggingInstalled, pipelineInvoked, callback, events, exitVars>>

RunDefault ==
    /\ pc = "run" /\ proc = "running"
    /\ ~Truthy(args.help) /\ ~Truthy(args.version)
    /\ pc' = "acquire_action"
    /\ UNCHANGED <<inputVars, task, CONTEXT, thrown, spinnerVars, setupVars,
                   callback, events, exitVars>>

AcquireActionStep ==
    /\ pc = "acquire_action" /\ proc = "running"
    /\ task' = AcquireAction(argv)
    /\ pc' = "acquire_context"
    /\ UNCHANGED <<inputVars, CONTEXT, thrown, spinnerVars, setupVars, callback,
                   events, exitVars>>

\* global.CONTEXT = this.__acquire_context(): published when it returns;
\* when it throws nothing is published and the exception is uncaught.
AcquireContextStep ==
    /\ pc = "acquire_context" /\ proc = "running"
    /\ LET r == AcquireContext(args)
       IN /\ thrown' = r.error
          /\ IF r.error = "none"
             THEN /\ CONTEXT' = <<r.context>>
                  /\ pc' = "setup_traps"
                  /\ UNCHANGED <<spinnerVars, exitVars>>
             ELSE /\ CONTEXT' = CONTEXT
                  /\ pc' = pc
                  /\ RaiseUncaught
    /\ UNCHANGED <<inputVars, task, setupVars, callback, events>>

\* The spinner is created, then the exit hook and the trap are registered.
SetupErrorTraps ==
    /\ pc = "setup_traps" /\ proc = "running"
    /\ spinner' = "idle" /\ spinnerText' = "Working...\n"
    /\ trapsInstalled' = TRUE
    /\ pc' = "setup_logging"
    /\ UNCHANGED <<inputVars, task, CONTEXT, thrown, terminalTransitions,
                   loggingInstalled, pipelineInvoked, callback, events, exitVars>>

SetupGulpLogging ==
    /\ pc = "setup_logging" /\ proc = "running"
    /\ loggingInstalled' = (task \in ActionsLogging)
    /\ pc' = "import"
    /\ UNCHANGED <<inputVars, task, CONTEXT, thrown, spinnerVars, trapsInstalled,
                   pipelineInvoked, callback, events, exitVars>>

ImportGulpfile ==
    /\ pc = "import" /\ proc = "running"
    /\ pc' = "start"
    /\ UNCHANGED <<inputVars, task, CONTEXT, thrown, spinnerVars, setupVars,
                   callback, events, exitVars>>

StartSpinner ==
    /\ pc = "start" /\ proc = "running"
    /\ SpinnerStart(spinnerText)
    /\ pc' = "invoke"
    /\ UNCHANGED <<inputVars, task, CONTEXT, thrown, setupVars, callback, events,
                   exitVars>>

InvokeTask ==
    /\ pc = "invoke" /\ proc = "running"
    /\ pipelineInvoked' = TRUE
    /\ pc' = "loop"
    /\ UNCHANGED <<inputVars, task, CONTEXT, thrown, spinnerVars, trapsInstalled,
                   loggingInstalled, callback, events, exitVars>>

(***************************************************************************)
(* Handlers, run from the event loop                                       *)
(***************************************************************************)
\* (a slip) the error path sets the exit code and lets the process run on.
CallbackErrorNoExit ==
    /\ pc = "loop" /\ proc = "running"
    /\ PipelineMayComplete
    /\ callback' = "error"
    /\ SpinnerFail("Error:")
    /\ exitCodes' = Append(exitCodes, 1)
    /\ UNCHANGED <<inputVars, pc, task, CONTEXT, thrown, setupVars, events,
                   exitEmitted, hookRuns, sigkill, proc>>

\* (a slip) the error path exits without finalizing the spinner.
CallbackErrorNoFail ==
    /\ pc = "loop" /\ proc = "running"
    /\ PipelineMayComplete
    /\ callback' = "error"
    /\ ProcessExit(1)
    /\ UNCHANGED <<inputVars, pc, task, CONTEXT, thrown, spinnerVars, setupVars, events>>

\* The completion callback, called with an error.
CallbackError ==
    /\ pc = "loop" /\ proc = "running"
    /\ PipelineMayComplete
    /\ callback' = "error"
    /\ SpinnerFail("Error:")
    /\ ProcessExit(1)
    /\ UNCHANGED <<inputVars, pc, task, CONTEXT, thrown, setupVars, events>>

\* (a slip) every action finalizes with the default rule.
CallbackSuccessDefaultRule ==
    /\ pc = "loop" /\ proc = "running"
    /\ PipelineMayComplete
    /\ callback' = "ok"
    /\ SpinnerApply(SpinnerSuccesses("default"))
    /\ UNCHANGED <<inputVars, pc, task, CONTEXT, thrown, setupVars, events, exitVars>>

\* The completion callback, called without an error.
CallbackSuccess ==
    /\ pc = "loop" /\ proc = "running"
    /\ PipelineMayComplete
    /\ callback' = "ok"
    /\ SpinnerApply(SpinnerSuccesses(task))
    /\ UNCHANGED <<inputVars, pc, task, CONTEXT, thrown, setupVars, events, exitVars>>

\* The "start" and "stop" events of the pipeline: a console line each.
BridgeLog ==
    /\ pc = "loop" /\ proc = "running"
    /\ loggingInstalled /\ PipelineMayEmit
    /\ events < MaxEvents
    /\ events' = events + 1
    /\ UNCHANGED <<inputVars, pc, task, CONTEXT, thrown, spinnerVars, setupVars,
                   callback, exitVars>>

\* The "error" event of the pipeline: a console line, then process.exit(1).
BridgeError ==
    /\ pc = "loop" /\ proc = "running"
    /\ loggingInstalled /\ PipelineMayEmit
    /\ ProcessExit(1)
    /\ UNCHANGED <<inputVars, pc, task, CONTEXT, thrown, spinnerVars, setupVars,
                   callback, events>>

\* The "uncaughtException" handler: any exception thrown once it is registered,
\* by the rest of __run_default or by anything the event loop runs.
UncaughtException ==
    /\ proc = "running"
    /\ trapsInstalled
    /\ pc \in {"setup_logging", "import", "start", "invoke", "loop"}
    /\ RaiseUncaught
    /\ UNCHANGED <<inputVars, pc, task, CONTEXT, thrown, setupVars, callback, events>>

\* Nothing is left to run: the runtime emits "exit" with the pending code.
EventLoopDrained ==
    /\ pc = "loop" /\ proc = "running"
    /\ EmitExit(PendingExitCode, exitCodes)
    /\ UNCHANGED <<inputVars, pc, task, CONTEXT, thrown, spinnerVars, setupVars,
                   callback, events>>

Next ==
    \/ RunHelp
    \/ RunVersion
    \/ RunDefault
    \/ AcquireActionStep
    \/ AcquireContextStep
    \/ SetupErrorTraps
    \/ SetupGulpLogging
    \/ ImportGulpfile
    \/ StartSpinner
    \/ InvokeTask
    \/ CallbackError
    \/ CallbackSuccess
    \/ BridgeLog
    \/ BridgeError
    \/ UncaughtException
    \/ EventLoopDrained

Spec == Init /\ [][Next]_vars

(***************************************************************************)
(* Action selection alone, over every token list                           *)
(***************************************************************************)
InitSelect ==
    /\ argv \in TokenLists(MaxTokens)
    /\ args = Args(Undefined, Undefined, Undefined, Undefined, Undefined,
                   Undefined, Undefined, Undefined, Undefined)
    /\ pc = "acquire_action"
    /\ StartState

NextSelect == AcquireActionStep

SpecSelect == InitSelect /\ [][NextSelect]_vars

(***************************************************************************)
(* Context resolution alone, over the override strings                     *)
(***************************************************************************)
Overrides == Flags \cup {Str(s) : s \in Strs(MaxLen)}

InitContext ==
    /\ argv = <<"node">>
    /\ \E example \in {Undefined, Str(<<"acme-docs">>), Str(<<"constructor">>)},
          config \in Overrides,
          assets \in Overrides,
          data \in {Undefined, Str(<<"a", ",", "b">>)},
          dist \in {Undefined, Str(<<".", ".", "/", "a">>)},
          temp \in {Undefined, Str(<<"/", "t", "/">>)},
          env \in {Undefined, Str(<<"production">>)} :
          args = Args(Undefined, Undefined, example, config, assets, data, dist, temp, env)
    /\ pc = "acquire_context"
    /\ task = "build"
    /\ CONTEXT = <<>>
    /\ thrown = "none"
    /\ spinner = "none"
    /\ spinnerText = ""
    /\ terminalTransitions = 0
    /\ trapsInstalled = FALSE
    /\ loggingInstalled = FALSE
    /\ pipelineInvoked = FALSE
    /\ callback = "none"
    /\ events = 0
    /\ exitCodes = <<>>
    /\ exitEmitted = <<>>
    /\ hookRuns = 0
    /\ sigkill = FALSE
    /\ proc = "running"

NextContext == AcquireContextStep

SpecContext == InitContext /\ [][NextContext]_vars

(***************************************************************************)
(* Properties                                                              *)
(***************************************************************************)
\* The statements of run / __run_default up to and including __acquire_context.
BeforeContext == {"run", "help", "version", "acquire_action", "acquire_context"}

\* C1: the action selected is the first of clean, build, lint, watch that
\* occurs as a token anywhere in the list, whatever the tokens' order, and
\* build when no token names an action.
C1_SelectionByPriority ==
    pc = "acquire_context" =>
        LET present(x) == \E i \in 1..Len(argv) : argv[i] = x
        IN task = IF present("clean") THEN "clean"
                  ELSE IF present("build") THEN "build"
                  ELSE IF present("lint") THEN "lint"
                  ELSE IF present("watch") THEN "watch"
                  ELSE "build"

\* C1 witness: lint comes before build in the tokens and build is selected.
C1_Witness ==
    /\ pc = "acquire_context"
    /\ argv = <<"node", "lint", "build">>
    /\ task = "build"

\* C2 (as claimed): in a resolved context every comma-separated component of
\* each of the five path fields is an absolute path.
C2_EveryComponentAbsolute ==
    Len(CONTEXT) = 1 =>
        \A i \in 1..Len(PathExpandKeys) :
            LET parts == SplitOn(CONTEXT[1][PathExpandKeys[i]], ",")
            IN \A e \in 1..Len(parts) : PathIsAbsolute(parts[e])

\* C2 (amended): in a resolved context every comma-separated component of
\* config is an absolute path, and each of assets, data, dist and temp is, as
\* a whole, one absolute path (a comma in it is not a separator).
C2_ConfigComponentsAndPathsAbsolute ==
    Len(CONTEXT) = 1 =>
        /\ LET parts == SplitOn(CONTEXT[1]["config"], ",")
           IN \A e \in 1..Len(parts) : PathIsAbsolute(parts[e])
        /\ \A k \in {"assets", "data", "dist", "temp"} : PathIsAbsolute(CONTEXT[1][k])

\* C2 witness: a context resolved from a config list with a relative and an
\* empty entry, and a relative assets override.
C2_Witness ==
    /\ Len(CONTEXT) = 1
    /\ args.config = Str(<<"a", ",">>)
    /\ args.assets = Str(<<".", "a">>)
    /\ CONTEXT[1]["config"] = <<"/", "w", "/", "a", ",", "/", "w">>
    /\ CONTEXT[1]["assets"] = <<"/", "w", "/", ".", "a">>

\* C3: when an example is requested by a name that is no key of the example
\* profiles, resolution fails: no context is published and the run never
\* gets past __acquire_context, so no pipeline action is invoked.
C3_UnknownExampleFails ==
    (IsStr(args.example) /\ args.example # Str(<<"acme-docs">>)) =>
        /\ CONTEXT = <<>>
        /\ ~pipelineInvoked
        /\ pc \in BeforeContext

\* C4: a published context has env development or production; when the
\* effective env (the override if given, else the profile's) is anything
\* else, resolution fails, nothing is published, no action is invoked.
C4_EnvRecognizedOrFails ==
    LET effective ==
            IF args.env # Undefined
            THEN IF IsStr(args.env) THEN args.env.s ELSE <<"true">>
            ELSE IF args.example = Undefined THEN <<"production">>
            ELSE IF args.example = Str(<<"acme-docs">>) THEN <<"development">>
            ELSE <<>>
    IN /\ Len(CONTEXT) = 1 =>
              CONTEXT[1]["env"] \in {<<"development">>, <<"production">>}
       /\ effective \notin {<<"development">>, <<"production">>} =>
              /\ CONTEXT = <<>>
              /\ ~pipelineInvoked
              /\ pc \in BeforeContext
              /\ (pc = "acquire_context" /\ proc # "running") => thrown # "none"

\* C4 witness: the override env=staging made resolution fail.
C4_Witness ==
    /\ args.env = Str(<<"staging">>)
    /\ thrown = "env"
    /\ proc = "exited"

\* C5 (as claimed): a configuration error is raised before any pipeline
\* action, is handled by the trap (the spinner fails), and ends with code 1.
C5_ConfigErrorHandledByTrap ==
    thrown \in {"example", "env"} =>
        /\ ~pipelineInvoked
        /\ spinner = "failed"
        /\ PendingExitCode = 1
        /\ proc # "running"

\* C5 (amended): a configuration error is raised before any pipeline action
\* and before the error traps are set up: the spinner is never created, the
\* exit hook never runs, and the runtime ends the run with exit code 1.
C5_ConfigErrorBeforeTraps ==
    thrown \in {"example", "env"} =>
        /\ ~pipelineInvoked
        /\ CONTEXT = <<>>
        /\ ~trapsInstalled
        /\ spinner = "none"
        /\ hookRuns = 0
        /\ ~sigkill
        /\ exitCodes = <<1>>
        /\ exitEmitted = <<1>>
        /\ proc = "exited"

\* C5 witness: a non-existing example ended the run.
C5_Witness ==
    /\ args.example = Str(<<"nonexistent">>)
    /\ thrown = "example"
    /\ proc = "exited"

\* C6: once the completion callback was called with an error, the spinner
\* is failed (finalized once, never by a success rule) and the process has
\* exited with code 1, whatever the action.
C6_CallbackErrorFails ==
    callback = "error" =>
        /\ spinner = "failed"
        /\ spinnerText = "Error:"
        /\ terminalTransitions = 1
        /\ PendingExitCode = 1
        /\ exitEmitted = <<1>>
        /\ proc # "running"

\* C6 witness: the watch action's callback was called with an error.
C6_Witness ==
    /\ task = "watch"
    /\ callback = "error"
    /\ spinner = "failed"

\* C7: a completion without error moves the spinner of clean, build and lint
\* from running to succeeded with the action's own message, and leaves the
\* spinner of watch running with the watch message; watch never succeeds.
C7_SuccessRuleApplied ==
    /\ [][(callback = "none" /\ callback' = "ok") =>
            IF task = "watch"
            THEN /\ spinner' = "running"
                 /\ spinnerText' = "Watching...\n"
                 /\ terminalTransitions' = terminalTransitions
            ELSE /\ spinner = "running"
                 /\ spinner' = "succeeded"
                 /\ spinnerText' = (CASE task = "clean" -> "Cleaned up."
                                      [] task = "build" -> "Build done!"
                                      [] task = "lint" -> "Lint passed.")]_vars
    /\ [](task = "watch" => spinner # "succeeded")

\* C7 witness: watch completed without error and the spinner still runs.
C7_Witness ==
    /\ task = "watch"
    /\ callback = "ok"
    /\ spinner = "running"
    /\ spinnerText = "Watching...\n"

\* C8: in a run of clean, build or lint the spinner is finalized at most
\* once: never failed after succeeded, never finalized twice.
C8_OneTerminalTransition ==
    task \in {"clean", "build", "lint"} => terminalTransitions <= 1

\* C9 (as claimed): the exit code is written at most once per run.
C9_ExitCodeWrittenOnce == Len(exitCodes) <= 1

\* C9 (amended): the exit code is written by the exit request of the first
\* handler that detects a fatal condition and, when that code is above zero,
\* once more with the same value by the exit hook, which then kills the
\* process: at most two writes, one value, none while the process runs on.
C9_ExitCodeStable ==
    /\ Len(exitCodes) <= 2
    /\ \A i \in 1..Len(exitCodes) : exitCodes[i] = exitCodes[1]
    /\ Len(exitCodes) = 2 => (hookRuns = 1 /\ sigkill /\ exitCodes[1] = 1)
    /\ exitCodes # <<>> => proc # "running"

\* C9 witness: a pipeline error event wrote the code and the hook wrote it again.
C9_Witness ==
    /\ task = "watch"
    /\ callback = "none"
    /\ spinner = "running"
    /\ exitCodes = <<1, 1>>
    /\ proc = "killed"

\* C10: the exit hook kills the process only when it exits with a code above
\* zero: a run that exits with code 0 is never killed; the hook runs at most
\* once.
C10_KillOnlyOnFailure ==
    /\ sigkill => (exitEmitted # <<>> /\ exitEmitted[1] > 0)
    /\ exitEmitted = <<0>> => (~sigkill /\ proc = "exited")
    /\ hookRuns <= 1
    /\ Len(exitEmitted) <= 1

\* C10 witness: a build succeeded, the hook ran on exit code 0 and did not kill.
C10_Witness ==
    /\ task = "build"
    /\ spinner = "succeeded"
    /\ exitEmitted = <<0>>
    /\ hookRuns = 1
    /\ ~sigkill

====
